---- MODULE Spec2Model ----
(***************************************************************************)
(* A model of src/src/core/components/networking.js: the origin rotator,   *)
(* the parameter composer, the public request operations with their        *)
(* credential checks, and the response handler of _abstractedXDR.          *)
(*                                                                         *)
(* Strings the code inspects or rewrites (origins) are sequences of        *)
(* tokens, so that indexOf and replace are computed and not assumed.       *)
(* JavaScript objects used as parameter maps are functions from their own  *)
(* keys to values.  NULL stands for every falsy "absent" value (undefined, *)
(* null, the empty string).                                                *)
(***************************************************************************)
EXTENDS Integers, Sequences, FiniteSets, TLC

NULL == "<absent>"

(***************************************************************************)
(* Bounds of the model.                                                    *)
(***************************************************************************)
\* how many rotator steps (nextOrigin calls after construction) a run takes
MaxShifts == 4
\* how many public operation calls a run observes
MaxCalls == 2

(***************************************************************************)
(* Strings as token sequences.                                             *)
(***************************************************************************)
\* String.prototype.indexOf for the two-token needle 'pubsub' '.': the first
\* index at which it occurs, or -1
IndexOfPubsubDot(s) ==
    LET hits == {i \in 1..(Len(s) - 1) : s[i] = "pubsub" /\ s[i + 1] = "."}
    IN  IF hits = {} THEN -1 ELSE CHOOSE i \in hits : \A j \in hits : i <= j

\* String.prototype.replace('pubsub', by): only the first occurrence is replaced,
\* and a string without the pattern is returned as it is
ReplaceFirstPubsub(s, by) ==
    LET hits == {i \in 1..Len(s) : s[i] = "pubsub"}
    IN  IF hits = {} THEN s
        ELSE LET i == CHOOSE i \in hits : \A j \in hits : i <= j
             IN  SubSeq(s, 1, i - 1) \o by \o SubSeq(s, i + 1, Len(s))

Digit(d) ==
    CASE d = 0 -> "0" [] d = 1 -> "1" [] d = 2 -> "2" [] d = 3 -> "3" [] d = 4 -> "4"
      [] d = 5 -> "5" [] d = 6 -> "6" [] d = 7 -> "7" [] d = 8 -> "8" [] d = 9 -> "9"

\* Number.prototype.toString() of a non-negative integer: its decimal digits
RECURSIVE NumberToString(_)
NumberToString(n) ==
    IF n < 10 THEN <<Digit(n)>> ELSE NumberToString(n \div 10) \o <<Digit(n % 10)>>

(***************************************************************************)
(* Parameter maps (JavaScript objects).                                    *)
(***************************************************************************)
\* property names every object inherits from Object.prototype: `key in data`
\* is true for them whatever data holds
InheritedKeys == {"toString"}

EmptyObject == [k \in {} |-> NULL]

\* the JavaScript `in` operator
KeyIn(key, data) == key \in DOMAIN data \/ key \in InheritedKeys

\* data[key] = value
SetKey(data, key, value) ==
    [k \in DOMAIN data \cup {key} |-> IF k = key THEN value ELSE data[k]]

\* an object argument of a call, and the argument left out (undefined or null)
Given(obj) == [present |-> TRUE, obj |-> obj]
NotGiven == [present |-> FALSE, obj |-> EmptyObject]

(***************************************************************************)
(* The state of one networking instance and of its collaborators.          *)
(***************************************************************************)
VARIABLES
    providedFQDN,      \* _providedFQDN: scheme and origin, a token sequence
    currentSubDomain,  \* _currentSubDomain
    standardOrigin,    \* _standardOrigin (NULL until the constructor sets it)
    subscribeOrigin,   \* _subscribeOrigin (NULL until the constructor sets it)
    coreParams,        \* _coreParams
    keychain,          \* what the Keychain's getters return
    config,            \* the Config: timeouts and isInstanceIdEnabled()
    sendBeacon,        \* whether a _sendBeacon function was supplied
    call,              \* the public operation call under observation
    loop,              \* the subscribe loop driving performSubscribe
    hist               \* history: the constructor's random draw, steps taken

vars ==
    <<providedFQDN, currentSubDomain, standardOrigin, subscribeOrigin, coreParams,
      keychain, config, sendBeacon, call, loop, hist>>

(***************************************************************************)
(* Origin rotator.                                                         *)
(***************************************************************************)
maxSubDomain == 20

\* utils.generateUUID().split('-')[0]: eight hexadecimal characters drawn at
\* random; two of the values it can take
RandomIds == {"f3a9c1d2", "0b7e55aa"}

\* the default origin and origins a caller may supply
DefaultOrigin == <<"pubsub", ".", "pubnub", ".", "com">>
EuropeOrigin == <<"eu", ".", "pubsub", ".", "pubnub", ".", "com">>
CustomOrigin == <<"my", ".", "host", ".", "io">>
CustomPubsubOrigin == <<"my", "pubsub", "host", ".", "io">>

\* whether the base is a pool template: it holds the routing token 'pubsub.'
IsPoolTemplate(fqdn) == \E i \in 1..(Len(fqdn) - 1) : fqdn[i] = "pubsub" /\ fqdn[i + 1] = "."

\* nextOrigin without the custom-origin test of line 96
nextOriginAlwaysRotates(fqdn, cur, failover, rnd) ==
    IF failover
    THEN [origin |-> ReplaceFirstPubsub(fqdn, <<"ps", rnd>>), currentSubDomain |-> cur]
    ELSE LET inc == cur + 1
             sub == IF inc >= maxSubDomain THEN 1 ELSE inc
         IN  [origin |-> ReplaceFirstPubsub(fqdn, <<"ps">> \o NumberToString(sub)),
              currentSubDomain |-> sub]

\* nextOrigin wrapping the counter to 0 instead of 1
nextOriginWrapsToZero(fqdn, cur, failover, rnd) ==
    IF IndexOfPubsubDot(fqdn) = -1
    THEN [origin |-> fqdn, currentSubDomain |-> cur]
    ELSE IF failover
    THEN [origin |-> ReplaceFirstPubsub(fqdn, <<"ps", rnd>>), currentSubDomain |-> cur]
    ELSE LET inc == cur + 1
             sub == IF inc >= maxSubDomain THEN 0 ELSE inc
         IN  [origin |-> ReplaceFirstPubsub(fqdn, <<"ps">> \o NumberToString(sub)),
              currentSubDomain |-> sub]

\* nextOrigin ignoring its failover argument
nextOriginIgnoresFailover(fqdn, cur, failover, rnd) ==
    IF IndexOfPubsubDot(fqdn) = -1
    THEN [origin |-> fqdn, currentSubDomain |-> cur]
    ELSE LET inc == cur + 1
             sub == IF inc >= maxSubDomain THEN 1 ELSE inc
         IN  [origin |-> ReplaceFirstPubsub(fqdn, <<"ps">> \o NumberToString(sub)),
              currentSubDomain |-> sub]

\* nextOrigin advancing the counter on failover too
nextOriginFailoverAdvances(fqdn, cur, failover, rnd) ==
    IF IndexOfPubsubDot(fqdn) = -1
    THEN [origin |-> fqdn, currentSubDomain |-> cur]
    ELSE LET inc == cur + 1
             sub == IF inc >= maxSubDomain THEN 1 ELSE inc
         IN  IF failover
             THEN [origin |-> ReplaceFirstPubsub(fqdn, <<"ps", rnd>>),
                   currentSubDomain |-> sub]
             ELSE [origin |-> ReplaceFirstPubsub(fqdn, <<"ps">> \o NumberToString(sub)),
                   currentSubDomain |-> sub]

\* nextOrigin(failover): the origin it returns and the counter it leaves.
\* rnd is the random identifier generateUUID yields when failover is taken.
nextOrigin(fqdn, cur, failover, rnd) ==
    IF IndexOfPubsubDot(fqdn) = -1
    THEN [origin |-> fqdn, currentSubDomain |-> cur]
    ELSE IF failover
    THEN [origin |-> ReplaceFirstPubsub(fqdn, <<"ps", rnd>>), currentSubDomain |-> cur]
    ELSE LET inc == cur + 1
             sub == IF inc >= maxSubDomain THEN 1 ELSE inc
         IN  [origin |-> ReplaceFirstPubsub(fqdn, <<"ps">> \o NumberToString(sub)),
              currentSubDomain |-> sub]

(***************************************************************************)
(* Parameter composer.                                                     *)
(***************************************************************************)
\* prepareParams letting a core parameter overwrite the caller's value
prepareParamsCoreWins(core, cfg, kc, data) ==
    LET d0 == IF ~data.present THEN EmptyObject ELSE data.obj
        d1 == [k \in DOMAIN d0 \cup DOMAIN core |-> IF k \in DOMAIN core THEN core[k] ELSE d0[k]]
    IN  IF cfg.instanceIdEnabled THEN SetKey(d1, "instanceid", kc.instanceId) ELSE d1

\* prepareParams(data): the object it returns (data itself, filled in).
\* data is an argument record: an object, or no object (a falsy argument).
prepareParams(core, cfg, kc, data) ==
    LET d0 == IF ~data.present THEN EmptyObject ELSE data.obj
        added == {k \in DOMAIN core : ~KeyIn(k, d0)}
        d1 == [k \in DOMAIN d0 \cup added |-> IF k \in DOMAIN d0 THEN d0[k] ELSE core[k]]
    IN  IF cfg.instanceIdEnabled THEN SetKey(d1, "instanceid", kc.instanceId) ELSE d1

(***************************************************************************)
(* Values the operations build.                                            *)
(***************************************************************************)
\* the fields of `this` and of its modules, as the operations read them
Self ==
    [providedFQDN |-> providedFQDN, currentSubDomain |-> currentSubDomain,
     standardOrigin |-> standardOrigin, subscribeOrigin |-> subscribeOrigin,
     coreParams |-> coreParams, keychain |-> keychain, config |-> config,
     sendBeacon |-> sendBeacon]

\* null, as the err or the result argument of a completion callback
None == [type |-> "none"]

\* this._r.validationError(message)
validationError(message) == [type |-> "validationError", message |-> message]

\* utils.encode, JSON.stringify and this._crypto.encrypt are computed outside
\* this file: the value each yields is tagged by the conversion applied
Encode(x) == <<"encoded", x>>
Stringify(x) == IF x = NULL THEN NULL ELSE <<"json", x>>
Encrypt(x) == <<"cipher", x>>

\* What the synchronous part of one operation call did: the exception it threw
\* (NULL when it returned), the completion callbacks it ran, the requests it
\* handed to superagent, the beacons it sent, the subdomain counter it left and
\* the caller's parameter object as the call left it.
Effect(threw, callbacks, requests, beacons, cur, data) ==
    [threw |-> threw, callbacks |-> callbacks, requests |-> requests,
     beacons |-> beacons, currentSubDomain |-> cur, data |-> data]

\* return callback(this._r.validationError(message))
Rejects(s, incomingData, message) ==
    Effect(NULL, <<[err |-> validationError(message), result |-> None]>>, <<>>, <<>>,
           s.currentSubDomain, incomingData)

\* the call ends in an uncaught exception before it builds any request
Throws(s, incomingData, exception) ==
    Effect(exception, <<>>, <<>>, <<>>, s.currentSubDomain, incomingData)

\* prepareParams fills in the caller's own object when one was given
Filled(incomingData, data) == IF incomingData.present THEN Given(data) ELSE incomingData

\* the call returns with one request handed to the transport
Sends(s, incomingData, data, request) ==
    Effect(NULL, <<>>, <<request>>, <<>>, s.currentSubDomain, Filled(incomingData, data))

\* _xdr: a GET request; a falsy timeout gives way to the transactional one
xdr(s, data, url, timeout) ==
    [method |-> "GET", url |-> url, data |-> data,
     timeout |-> IF timeout # 0 THEN timeout ELSE s.config.transactionalRequestTimeout]

\* _postXDR: the same request sent with POST
postXDR(s, data, url, timeout) ==
    [method |-> "POST", url |-> url, data |-> data,
     timeout |-> IF timeout # 0 THEN timeout ELSE s.config.transactionalRequestTimeout]

\* if (this._keychain.getAuthKey()) data.auth = this._keychain.getAuthKey()
WithAuth(s, data) ==
    IF s.keychain.authKey # NULL THEN SetKey(data, "auth", s.keychain.authKey) ELSE data

\* if (this._keychain.getUUID()) data.uuid = this._keychain.getUUID()
WithUUID(s, data) ==
    IF s.keychain.uuid # NULL THEN SetKey(data, "uuid", s.keychain.uuid) ELSE data

Prepared(s, incomingData) == prepareParams(s.coreParams, s.config, s.keychain, incomingData)

(***************************************************************************)
(* The public operations: what one call does before it returns.            *)
(***************************************************************************)
fetchHistory(s, channel, incomingData) ==
    IF s.keychain.subscribeKey = NULL
    THEN Rejects(s, incomingData, "Missing Subscribe Key")
    ELSE LET url == <<s.standardOrigin, "v2", "history", "sub-key",
                      s.keychain.subscribeKey, "channel", Encode(channel)>>
             data == WithAuth(s, Prepared(s, incomingData))
         IN  Sends(s, incomingData, data, xdr(s, data, url, 0))

performChannelGroupOperation(s, channelGroup, mode, incomingData) ==
    IF s.keychain.subscribeKey = NULL
    THEN Rejects(s, incomingData, "Missing Subscribe Key")
    ELSE LET base == <<s.standardOrigin, "v1", "channel-registration", "sub-key",
                       s.keychain.subscribeKey, "channel-group">>
             named == IF channelGroup # NULL /\ channelGroup # "*"
                      THEN Append(base, channelGroup) ELSE base
             url == IF mode = "remove" THEN Append(named, "remove") ELSE named
             data == WithAuth(s, Prepared(s, incomingData))
         IN  Sends(s, incomingData, data, xdr(s, data, url, 0))

provisionDeviceForPush(s, deviceId, incomingData) ==
    IF s.keychain.subscribeKey = NULL
    THEN Rejects(s, incomingData, "Missing Subscribe Key")
    ELSE IF s.keychain.publishKey = NULL
    THEN Rejects(s, incomingData, "Missing Publish Key")
    ELSE LET url == <<s.standardOrigin, "v1", "push", "sub-key",
                      s.keychain.subscribeKey, "devices", deviceId>>
             data == SetKey(SetKey(Prepared(s, incomingData), "uuid", s.keychain.uuid),
                            "auth", s.keychain.authKey)
         IN  Sends(s, incomingData, data, xdr(s, data, url, 0))

\* this._error is no member of the class, so each credential check that fails
\* ends in a TypeError; with the three keys present the call reaches line 210,
\* where this._networking is undefined
performGrant(s, authKey, incomingData) ==
    IF s.keychain.subscribeKey = NULL
    THEN Throws(s, incomingData, "TypeError: this._error is not a function")
    ELSE IF s.keychain.publishKey = NULL
    THEN Throws(s, incomingData, "TypeError: this._error is not a function")
    ELSE IF s.keychain.secretKey = NULL
    THEN Throws(s, incomingData, "TypeError: this._error is not a function")
    ELSE Throws(s, incomingData, "TypeError: this._networking is undefined")

performHeartbeat(s, channels, incomingData) ==
    IF s.keychain.subscribeKey = NULL
    THEN Rejects(s, incomingData, "Missing Subscribe Key")
    ELSE LET data == Prepared(s, incomingData)
             url == <<s.standardOrigin, "v2", "presence", "sub-key",
                      s.keychain.subscribeKey, "channel", channels, "heartbeat">>
         IN  Sends(s, incomingData, data, xdr(s, data, url, 0))

\* line 244 reads args, which is declared nowhere: a ReferenceError before
\* any credential is looked at
performAudit(s, authKey, incomingData) ==
    Throws(s, incomingData, "ReferenceError: args is not defined")

\* performLeave taking the next origin before it looks at the subscribe key
performLeaveShiftsFirst(s, channel, incomingData, beaconAccepted) ==
    LET next == nextOrigin(s.providedFQDN, s.currentSubDomain, FALSE, NULL)
    IN  IF s.keychain.subscribeKey = NULL
        THEN Effect(NULL,
                    <<[err |-> validationError("Missing Subscribe Key"), result |-> None]>>,
                    <<>>, <<>>, next.currentSubDomain, incomingData)
        ELSE LET prepared == Prepared(s, incomingData)
                 url == <<next.origin, "v2", "presence", "sub_key",
                          s.keychain.subscribeKey, "channel", Encode(channel), "leave">>
                 data == WithUUID(s, WithAuth(s, prepared))
             IN  IF s.sendBeacon
                 THEN Effect(NULL,
                             IF beaconAccepted
                             THEN <<[err |-> None,
                                     result |-> [type |-> "leave", status |-> 200,
                                                 message |-> "OK", service |-> "Presence"]]>>
                             ELSE <<>>,
                             <<>>, <<[url |-> url, data |-> data]>>,
                             next.currentSubDomain, Filled(incomingData, data))
                 ELSE Effect(NULL, <<>>, <<xdr(s, data, url, 0)>>, <<>>,
                             next.currentSubDomain, Filled(incomingData, data))

\* beaconAccepted is what this._sendBeacon returns when there is one
performLeave(s, channel, incomingData, beaconAccepted) ==
    IF s.keychain.subscribeKey = NULL
    THEN Rejects(s, incomingData, "Missing Subscribe Key")
    ELSE LET prepared == Prepared(s, incomingData)
             next == nextOrigin(s.providedFQDN, s.currentSubDomain, FALSE, NULL)
             url == <<next.origin, "v2", "presence", "sub_key",
                      s.keychain.subscribeKey, "channel", Encode(channel), "leave">>
             data == WithUUID(s, WithAuth(s, prepared))
         IN  IF s.sendBeacon
             THEN Effect(NULL,
                         IF beaconAccepted
                         THEN <<[err |-> None,
                                 result |-> [type |-> "leave", status |-> 200,
                                             message |-> "OK", service |-> "Presence"]]>>
                         ELSE <<>>,
                         <<>>, <<[url |-> url, data |-> data]>>,
                         next.currentSubDomain, Filled(incomingData, data))
             ELSE Effect(NULL, <<>>, <<xdr(s, data, url, 0)>>, <<>>,
                         next.currentSubDomain, Filled(incomingData, data))

fetchTime(s) ==
    LET data == WithAuth(s, WithUUID(s, Prepared(s, Given(EmptyObject))))
        url == <<s.standardOrigin, "time", "0">>
    IN  Sends(s, NotGiven, data, xdr(s, data, url, 0))

fetchWhereNow(s, uuid) ==
    IF s.keychain.subscribeKey = NULL
    THEN Rejects(s, NotGiven, "Missing Subscribe Key")
    ELSE LET data == WithAuth(s, Prepared(s, Given(EmptyObject)))
             who == IF uuid = NULL THEN s.keychain.uuid ELSE uuid
             url == <<s.standardOrigin, "v2", "presence", "sub-key",
                      s.keychain.subscribeKey, "uuid", Encode(who)>>
         IN  Sends(s, NotGiven, data, xdr(s, data, url, 0))

fetchHereNow(s, channel, channelGroup, incomingData) ==
    IF s.keychain.subscribeKey = NULL
    THEN Rejects(s, incomingData, "Missing Subscribe Key")
    ELSE LET data == WithAuth(s, WithUUID(s, Prepared(s, incomingData)))
             base == <<s.standardOrigin, "v2", "presence", "sub-key",
                       s.keychain.subscribeKey>>
             named == IF channel # NULL
                      THEN base \o <<"channel", Encode(channel)>> ELSE base
             url == IF channelGroup # NULL /\ channel = NULL
                    THEN named \o <<"channel", ",">> ELSE named
         IN  Sends(s, incomingData, data, xdr(s, data, url, 0))

setState(s, channel, incomingData) ==
    IF s.keychain.subscribeKey = NULL
    THEN Rejects(s, incomingData, "Missing Subscribe Key")
    ELSE LET prepared == Prepared(s, incomingData)
             url == <<s.standardOrigin, "v2", "presence", "sub-key",
                      s.keychain.subscribeKey, "channel", channel,
                      "uuid", s.keychain.uuid, "data">>
             authed == WithAuth(s, prepared)
             data == SetKey(authed, "state",
                            Stringify(IF "state" \in DOMAIN authed
                                      THEN authed["state"] ELSE NULL))
         IN  Sends(s, incomingData, data, xdr(s, data, url, 0))

fetchState(s, uuid, channel, incomingData) ==
    IF s.keychain.subscribeKey = NULL
    THEN Rejects(s, incomingData, "Missing Subscribe Key")
    ELSE LET who == IF uuid = NULL THEN s.keychain.uuid ELSE uuid
             prepared == Prepared(s, incomingData)
             url == <<s.standardOrigin, "v2", "presence", "sub-key",
                      s.keychain.subscribeKey, "channel", channel, "uuid", who>>
             data == WithAuth(s, prepared)
         IN  Sends(s, incomingData, data, xdr(s, data, url, 0))

performPublish(s, channel, msg, incomingData, mode) ==
    IF s.keychain.subscribeKey = NULL
    THEN Rejects(s, incomingData, "Missing Subscribe Key")
    ELSE IF s.keychain.publishKey = NULL
    THEN Rejects(s, incomingData, "Missing Publish Key")
    ELSE LET encryptedMessage == Encrypt(Stringify(msg))
             url == <<s.standardOrigin, "publish", s.keychain.publishKey,
                      s.keychain.subscribeKey, "0", Encode(channel),
                      "0", Encode(encryptedMessage)>>
             data == WithAuth(s, WithUUID(s, Prepared(s, incomingData)))
         IN  IF mode = "POST"
             THEN Sends(s, incomingData, data, postXDR(s, data, url, 0))
             ELSE Sends(s, incomingData, data, xdr(s, data, url, 0))

\* performSubscribe putting 0 in the URL where the timetoken belongs
performSubscribeZeroTimetoken(s, channels, timetoken, incomingData) ==
    IF s.keychain.subscribeKey = NULL
    THEN Rejects(s, incomingData, "Missing Subscribe Key")
    ELSE LET url == <<s.subscribeOrigin, "subscribe", s.keychain.subscribeKey,
                      Encode(channels), "0", 0>>
             data == WithAuth(s, WithUUID(s, Prepared(s, incomingData)))
         IN  Sends(s, incomingData, data,
                   xdr(s, data, url, s.config.subscribeRequestTimeout))

performSubscribe(s, channels, timetoken, incomingData) ==
    IF s.keychain.subscribeKey = NULL
    THEN Rejects(s, incomingData, "Missing Subscribe Key")
    ELSE LET url == <<s.subscribeOrigin, "subscribe", s.keychain.subscribeKey,
                      Encode(channels), "0", timetoken>>
             data == WithAuth(s, WithUUID(s, Prepared(s, incomingData)))
         IN  Sends(s, incomingData, data,
                   xdr(s, data, url, s.config.subscribeRequestTimeout))

(***************************************************************************)
(* The response handler of _abstractedXDR.                                 *)
(***************************************************************************)
\* What superagent hands to the handler given to .end: err (NULL when the
\* transport raised none), and of resp its error field and its text.
TransportError == [err |-> "ETIMEDOUT", error |-> NULL, text |-> [parseable |-> FALSE]]
Response(error, text) == [err |-> NULL, error |-> error, text |-> text]

\* texts a server can answer with: a JSON document, or something else
JsonText(body) == [parseable |-> TRUE, body |-> body]
Garbage == [parseable |-> FALSE]

\* JSON.parse(text): the value, or the SyntaxError it throws
JSONparse(text) ==
    IF text.parseable
    THEN [threw |-> NULL, value |-> [type |-> "parsed", body |-> text.body]]
    ELSE [threw |-> "SyntaxError: Unexpected token in JSON", value |-> None]

\* the handler without the return that follows callback(resp.error, null)
xdrEndFallsThrough(response) ==
    IF response.err # NULL
    THEN [threw |-> NULL, requests |-> <<>>,
          callbacks |-> <<[err |-> [type |-> "transport", err |-> response.err],
                           result |-> None]>>]
    ELSE LET first == IF response.error # NULL
                      THEN <<[err |-> [type |-> "response", error |-> response.error],
                              result |-> None]>>
                      ELSE <<>>
             parsed == JSONparse(response.text)
         IN  IF parsed.threw # NULL
             THEN [threw |-> parsed.threw, requests |-> <<>>, callbacks |-> first]
             ELSE [threw |-> NULL, requests |-> <<>>,
                   callbacks |-> Append(first, [err |-> None, result |-> parsed.value])]

\* the handler issuing the request again when the transport failed
xdrEndRetries(response) ==
    IF response.err # NULL
    THEN [threw |-> NULL, requests |-> <<"again">>, callbacks |-> <<>>]
    ELSE IF response.error # NULL
    THEN [threw |-> NULL, requests |-> <<>>,
          callbacks |-> <<[err |-> [type |-> "response", error |-> response.error],
                           result |-> None]>>]
    ELSE LET parsed == JSONparse(response.text)
         IN  IF parsed.threw # NULL
             THEN [threw |-> parsed.threw, requests |-> <<>>, callbacks |-> <<>>]
             ELSE [threw |-> NULL, requests |-> <<>>,
                   callbacks |-> <<[err |-> None, result |-> parsed.value]>>]

\* function (err, resp) of lines 505-514: the callbacks it runs, the exception
\* it lets escape and the requests it hands to the transport (it has no code
\* that issues one)
xdrEnd(response) ==
    IF response.err # NULL
    THEN [threw |-> NULL, requests |-> <<>>,
          callbacks |-> <<[err |-> [type |-> "transport", err |-> response.err],
                           result |-> None]>>]
    ELSE IF response.error # NULL
    THEN [threw |-> NULL, requests |-> <<>>,
          callbacks |-> <<[err |-> [type |-> "response", error |-> response.error],
                           result |-> None]>>]
    ELSE LET parsed == JSONparse(response.text)
         IN  IF parsed.threw # NULL
             THEN [threw |-> parsed.threw, requests |-> <<>>, callbacks |-> <<>>]
             ELSE [threw |-> NULL, requests |-> <<>>,
                   callbacks |-> <<[err |-> None, result |-> parsed.value]>>]

(***************************************************************************)
(* Construction.                                                           *)
(***************************************************************************)
\* The call under observation: the operation, the parameter object it was given
\* and as the call left it, the exception that escaped (from the call itself or
\* from its response handler), the callbacks run so far, the requests handed
\* to the transport, the beacons sent, whether a request awaits its response.
\* core is _coreParams as the call found it; returned is the object a call of
\* prepareParams returns; response is what the transport answered the request
\* with, once it has; sent counts the requests handed to the transport; authKey
\* is the first argument of performGrant and performAudit.
NoCall ==
    [op |-> "none", given |-> NotGiven, data |-> NotGiven, threw |-> NULL,
     callbacks |-> <<>>, requests |-> <<>>, beacons |-> <<>>, pending |-> FALSE,
     core |-> EmptyObject, returned |-> NotGiven, response |-> None, sent |-> 0,
     authKey |-> NULL]

\* The subscribe loop: its phase ("idle" before it is started, "polling",
\* "failed" after a validation error, which is never retried), whether a stop was
\* issued, the cursor, the long-polls on the wire, the events delivered to the
\* caller, and history: how many long-polls were issued, how many had been when
\* the stop was issued, what the last step of the loop was, the cursor's
\* timetoken before it, and the request whose completion it handled.
NoLoop ==
    [phase |-> "idle", stopped |-> FALSE,
     cursor |-> [timetoken |-> 0, region |-> NULL],
     inflight |-> <<>>, delivered |-> <<>>, notified |-> FALSE,
     issued |-> 0, issuedAtStop |-> 0, event |-> "none", before |-> 0,
     last |-> [seq |-> 0, timetoken |-> 0, followUp |-> 0]]

\* The constructor up to line 61, for the arguments and the random draw given:
\* the origins are not resolved yet (lines 64 and 65 follow as steps).
Constructed(ssl, origin, draw, kc, cfg, beacon) ==
    /\ providedFQDN = <<IF ssl THEN "https://" ELSE "http://">> \o origin
    /\ currentSubDomain = draw
    /\ standardOrigin = <<>>
    /\ subscribeOrigin = <<>>
    /\ coreParams = EmptyObject
    /\ keychain = kc
    /\ config = cfg
    /\ sendBeacon = beacon
    /\ call = NoCall
    /\ loop = NoLoop
    /\ hist = [draw |-> draw, advances |-> 0, calls |-> 0, returned |-> <<>>,
               shifts |-> [channel \in {"standard", "subscribe"} |-> [n |-> 0, sub |-> draw]]]

\* the constructor has returned
Ready == standardOrigin # <<>> /\ subscribeOrigin # <<>>

\* history: one more nextOrigin(false) on a pool template, which returned origin
Advanced(origin) == [hist EXCEPT !.advances = @ + 1, !.returned = origin]

\* history: one more non-failover shift of the channel's cached origin, which
\* left the counter at sub
Shifted(h, channel, sub) ==
    [h EXCEPT !.shifts[channel] = [n |-> @.n + 1, sub |-> sub]]

\* line 64: this.shiftStandardOrigin(false)
ConstructStandardOrigin ==
    /\ standardOrigin = <<>>
    /\ LET next == nextOrigin(providedFQDN, currentSubDomain, FALSE, NULL)
       IN  /\ standardOrigin' = next.origin
           /\ currentSubDomain' = next.currentSubDomain
    /\ hist' = IF IsPoolTemplate(providedFQDN)
               THEN Shifted(Advanced(standardOrigin'), "standard", currentSubDomain')
               ELSE hist
    /\ UNCHANGED <<providedFQDN, subscribeOrigin, coreParams, keychain, config,
                   sendBeacon, call, loop>>

\* line 65: this.shiftSubscribeOrigin(false)
ConstructSubscribeOrigin ==
    /\ standardOrigin # <<>>
    /\ subscribeOrigin = <<>>
    /\ LET next == nextOrigin(providedFQDN, currentSubDomain, FALSE, NULL)
       IN  /\ subscribeOrigin' = next.origin
           /\ currentSubDomain' = next.currentSubDomain
    /\ hist' = IF IsPoolTemplate(providedFQDN)
               THEN Shifted(Advanced(subscribeOrigin'), "subscribe", currentSubDomain')
               ELSE hist
    /\ UNCHANGED <<providedFQDN, standardOrigin, coreParams, keychain, config,
                   sendBeacon, call, loop>>

(***************************************************************************)
(* Rotation and core parameters.                                           *)
(***************************************************************************)
\* a non-failover advance of a pool template is counted, up to the bound
MayShift(failover) ==
    failover \/ ~IsPoolTemplate(providedFQDN) \/ hist.advances < MaxShifts

ShiftHistory(failover, origin, channel, sub) ==
    IF ~failover /\ IsPoolTemplate(providedFQDN)
    THEN Shifted(Advanced(origin), channel, sub)
    ELSE hist

shiftStandardOrigin(failover) ==
    /\ Ready
    /\ MayShift(failover)
    /\ \E rnd \in (IF failover THEN RandomIds ELSE {NULL}) :
          LET next == nextOrigin(providedFQDN, currentSubDomain, failover, rnd)
          IN  /\ standardOrigin' = next.origin
              /\ currentSubDomain' = next.currentSubDomain
    /\ hist' = ShiftHistory(failover, standardOrigin', "standard", currentSubDomain')
    /\ UNCHANGED <<providedFQDN, subscribeOrigin, coreParams, keychain, config,
                   sendBeacon, call, loop>>

shiftSubscribeOrigin(failover) ==
    /\ Ready
    /\ MayShift(failover)
    /\ \E rnd \in (IF failover THEN RandomIds ELSE {NULL}) :
          LET next == nextOrigin(providedFQDN, currentSubDomain, failover, rnd)
          IN  /\ subscribeOrigin' = next.origin
              /\ currentSubDomain' = next.currentSubDomain
    /\ hist' = ShiftHistory(failover, subscribeOrigin', "subscribe", currentSubDomain')
    /\ UNCHANGED <<providedFQDN, standardOrigin, coreParams, keychain, config,
                   sendBeacon, call, loop>>

setCoreParams(params) ==
    /\ Ready
    /\ coreParams' = params
    /\ UNCHANGED <<providedFQDN, currentSubDomain, standardOrigin, subscribeOrigin,
                   keychain, config, sendBeacon, call, loop, hist>>

addCoreParam(key, value) ==
    /\ Ready
    /\ coreParams' = SetKey(coreParams, key, value)
    /\ UNCHANGED <<providedFQDN, currentSubDomain, standardOrigin, subscribeOrigin,
                   keychain, config, sendBeacon, call, loop, hist>>

(***************************************************************************)
(* Calls of the public operations and the completion of their requests.    *)
(***************************************************************************)
\* One call of operation op with parameter object given, whose synchronous part
\* did effect.  A new call is observed once the previous one has no request
\* outstanding.
Invoked(op, given, effect, authKey) ==
    /\ Ready
    /\ ~call.pending
    /\ hist.calls < MaxCalls
    /\ call' = [op |-> op, given |-> given, data |-> effect.data,
                threw |-> effect.threw, callbacks |-> effect.callbacks,
                requests |-> effect.requests, beacons |-> effect.beacons,
                pending |-> effect.requests # <<>>,
                core |-> coreParams, returned |-> NotGiven,
                response |-> None, sent |-> Len(effect.requests),
                authKey |-> authKey]
    /\ currentSubDomain' = effect.currentSubDomain
    /\ hist' = LET counted == [hist EXCEPT !.calls = @ + 1]
                   sent == effect.requests \o effect.beacons
               IN  IF /\ op = "performLeave"
                      /\ keychain.subscribeKey # NULL
                      /\ IsPoolTemplate(providedFQDN)
                   THEN [counted EXCEPT !.advances = @ + 1, !.returned = sent[1].url[1]]
                   ELSE counted
    /\ UNCHANGED <<providedFQDN, standardOrigin, subscribeOrigin, coreParams,
                   keychain, config, sendBeacon, loop>>

Invoke(op, given, effect) == Invoked(op, given, effect, NULL)

Channels == {"ch"}
UUIDArgs == {NULL, "uuid-arg"}

FetchHistory(Ps) ==
    \E ch \in Channels, P \in Ps :
        Invoke("fetchHistory", P, fetchHistory(Self, ch, P))

PerformChannelGroupOperation(Ps) ==
    \E cg \in {NULL, "cg", "*"}, mode \in {"add", "remove"}, P \in Ps :
        Invoke("performChannelGroupOperation", P,
               performChannelGroupOperation(Self, cg, mode, P))

ProvisionDeviceForPush(Ps) ==
    \E P \in Ps :
        Invoke("provisionDeviceForPush", P, provisionDeviceForPush(Self, "device", P))

PerformGrant(Ps) ==
    \E authKey \in {NULL, "auth-arg"}, P \in Ps :
        Invoked("performGrant", P, performGrant(Self, authKey, P), authKey)

PerformHeartbeat(Ps) ==
    \E ch \in Channels, P \in Ps :
        Invoke("performHeartbeat", P, performHeartbeat(Self, ch, P))

PerformAudit(Ps) ==
    \E authKey \in {NULL, "auth-arg"}, P \in Ps :
        Invoked("performAudit", P, performAudit(Self, authKey, P), authKey)

PerformLeave(Ps) ==
    \E ch \in Channels, P \in Ps, beaconAccepted \in BOOLEAN :
        /\ sendBeacon \/ beaconAccepted
        /\ Invoke("performLeave", P, performLeave(Self, ch, P, beaconAccepted))

FetchTime ==
    Invoke("fetchTime", NotGiven, fetchTime(Self))

FetchWhereNow ==
    \E uuid \in UUIDArgs :
        Invoke("fetchWhereNow", NotGiven, fetchWhereNow(Self, uuid))

FetchHereNow(Ps) ==
    \E ch \in Channels \cup {NULL}, cg \in {NULL, "cg"}, P \in Ps :
        Invoke("fetchHereNow", P, fetchHereNow(Self, ch, cg, P))

SetState(Ps) ==
    \E ch \in Channels, P \in Ps :
        Invoke("setState", P, setState(Self, ch, P))

FetchState(Ps) ==
    \E uuid \in UUIDArgs, ch \in Channels, P \in Ps :
        Invoke("fetchState", P, fetchState(Self, uuid, ch, P))

PerformPublish(Ps) ==
    \E ch \in Channels, P \in Ps, mode \in {"GET", "POST"} :
        Invoke("performPublish", P, performPublish(Self, ch, "hello", P, mode))

PerformSubscribe(Ps) ==
    \E ch \in Channels, tt \in {0, 5}, P \in Ps :
        Invoke("performSubscribe", P, performSubscribe(Self, ch, tt, P))

\* what the transport can answer a transactional request with
Responses ==
    {TransportError,
     Response("Forbidden", JsonText("error")),
     Response("Bad Gateway", Garbage),
     Response(NULL, JsonText("ok")),
     Response(NULL, JsonText("error")),
     Response(NULL, Garbage)}

\* superagent runs the handler given to .end, once, for the outstanding request
Respond(Rs) ==
    /\ call.pending
    /\ \E response \in Rs :
          LET ended == xdrEnd(response)
          IN  call' = [call EXCEPT !.pending = FALSE,
                                   !.threw = ended.threw,
                                   !.callbacks = @ \o ended.callbacks,
                                   !.response = response,
                                   !.sent = @ + Len(ended.requests)]
    /\ UNCHANGED <<providedFQDN, currentSubDomain, standardOrigin, subscribeOrigin,
                   coreParams, keychain, config, sendBeacon, loop, hist>>

(***************************************************************************)
(* The subscribe loop: the repeated caller of performSubscribe.            *)
(***************************************************************************)
\* how many long-polls a loop issues in a run, and the largest timetoken a
\* server answers with
MaxPolls == 4
MaxTimetoken == 3

LoopChannels == "ch"
Regions == {"r1"}
Batches == {<<>>, <<"e1", "e2">>}

\* What the server can answer the long-poll request with: no answer (transport
\* error), an error response, events with a cursor that is not behind the
\* timetoken the request carried, or a text that is not JSON.
SubscribeResponses(request) ==
    {TransportError,
     Response("Forbidden", JsonText([kind |-> "error"])),
     Response("Invalid Timetoken", JsonText([kind |-> "error"])),
     Response(NULL, Garbage)}
        \cup {Response(NULL, JsonText([kind |-> "events", t |-> t, r |-> r, m |-> m])) :
                t \in {t \in 1..MaxTimetoken : t >= request.url[6]},
                r \in Regions, m \in Batches}

\* the part of the state a completion callback of the loop works on
LoopState ==
    [loop |-> loop, subscribeOrigin |-> subscribeOrigin,
     currentSubDomain |-> currentSubDomain, hist |-> hist]

\* issue the next long-poll with the cursor's timetoken: performSubscribe either
\* hands a request to the transport or runs the callback with a validation
\* error, which ends the loop
Issue(st) ==
    LET s == [Self EXCEPT !.subscribeOrigin = st.subscribeOrigin,
                          !.currentSubDomain = st.currentSubDomain]
        effect == performSubscribe(s, LoopChannels, st.loop.cursor.timetoken, NotGiven)
        seq == st.loop.issued + 1
    IN  IF effect.requests = <<>>
        THEN [st EXCEPT !.loop.phase = "failed", !.loop.last.followUp = 0]
        ELSE [st EXCEPT !.loop.phase = "polling",
                        !.loop.issued = seq,
                        !.loop.last.followUp = seq,
                        !.loop.inflight =
                            Append(@, [seq |-> seq, request |-> effect.requests[1],
                                       cursorAtIssue |-> st.loop.cursor.timetoken])]

\* select the subscribe origin (shiftSubscribeOrigin(failover)), then issue the
\* next long-poll with the cursor as it is
Reissue(st, event, failover, rnd) ==
    LET next == nextOrigin(providedFQDN, st.currentSubDomain, failover, rnd)
        counted == IF ~failover /\ IsPoolTemplate(providedFQDN)
                   THEN Shifted([st.hist EXCEPT !.advances = @ + 1,
                                                !.returned = next.origin],
                                "subscribe", next.currentSubDomain)
                   ELSE st.hist
    IN  Issue([st EXCEPT !.subscribeOrigin = next.origin,
                         !.currentSubDomain = next.currentSubDomain,
                         !.hist = counted,
                         !.loop.event = event])

IsApplicationError(cb) ==
    \/ cb.err.type = "response"
    \/ cb.err.type = "none" /\ cb.result.body.kind = "error"

IsInvalidCursor(cb) == cb.err.type = "response" /\ cb.err.error = "Invalid Timetoken"

\* the completion callback without the test of the stop
OnCallbackIgnoresStop(st, cb, polled, rnd) ==
    IF cb.err.type = "transport"
    THEN Reissue(st, "failure", TRUE, rnd)
    ELSE IF IsApplicationError(cb)
    THEN IF IsInvalidCursor(cb)
         THEN Issue([st EXCEPT !.loop.cursor = [timetoken |-> 0, region |-> NULL],
                               !.loop.notified = TRUE,
                               !.loop.event = "invalidCursor"])
         ELSE Reissue(st, "applicationError", TRUE, rnd)
    ELSE LET body == cb.result.body
             batch == [i \in 1..Len(body.m) |-> [seq |-> polled.seq, event |-> body.m[i]]]
         IN  Reissue([st EXCEPT !.loop.delivered = @ \o batch,
                                !.loop.cursor = [timetoken |-> body.t, region |-> body.r]],
                     "success", FALSE, rnd)

\* The completion callback the loop gives to performSubscribe, run for the
\* long-poll polled.  After a stop the outcome is discarded.  A transport error
\* is retried on a failover origin with the cursor as it is; an application
\* error is retried in the same way unless it says the cursor is invalid, which
\* resets the cursor to 0 and notifies the caller; a success delivers the batch
\* in order, advances the cursor and issues the next long-poll on the origin
\* that normal selection yields.
OnCallback(st, cb, polled, rnd) ==
    IF st.loop.stopped
    THEN [st EXCEPT !.loop.event = "discarded", !.loop.last.followUp = 0]
    ELSE IF cb.err.type = "transport"
    THEN Reissue(st, "failure", TRUE, rnd)
    ELSE IF IsApplicationError(cb)
    THEN IF IsInvalidCursor(cb)
         THEN Issue([st EXCEPT !.loop.cursor = [timetoken |-> 0, region |-> NULL],
                               !.loop.notified = TRUE,
                               !.loop.event = "invalidCursor"])
         ELSE Reissue(st, "applicationError", TRUE, rnd)
    ELSE LET body == cb.result.body
             batch == [i \in 1..Len(body.m) |-> [seq |-> polled.seq, event |-> body.m[i]]]
         IN  Reissue([st EXCEPT !.loop.delivered = @ \o batch,
                                !.loop.cursor = [timetoken |-> body.t, region |-> body.r]],
                     "success", FALSE, rnd)

\* every callback the response handler ran, in turn
RECURSIVE RunCallbacks(_, _, _, _)
RunCallbacks(st, callbacks, polled, rnd) ==
    IF callbacks = <<>> THEN st
    ELSE RunCallbacks(OnCallback(st, Head(callbacks), polled, rnd),
                      Tail(callbacks), polled, rnd)

\* a long-poll may be issued within the bound
Polling == loop.issued < MaxPolls

\* the caller starts the loop: the first long-poll carries timetoken 0
LoopStart ==
    /\ Ready
    /\ loop.phase = "idle"
    /\ LET st == Issue([LoopState EXCEPT !.loop.event = "start"])
       IN  /\ loop' = st.loop
           /\ subscribeOrigin' = st.subscribeOrigin
           /\ currentSubDomain' = st.currentSubDomain
           /\ hist' = st.hist
    /\ UNCHANGED <<providedFQDN, standardOrigin, coreParams, keychain, config,
                   sendBeacon, call>>

\* a long-poll on the wire completes: superagent runs the handler of
\* _abstractedXDR, which runs the loop's callback (or throws and runs none)
LoopComplete ==
    /\ loop.inflight # <<>>
    /\ Polling \/ loop.stopped
    /\ \E i \in 1..Len(loop.inflight), rnd \in RandomIds :
          LET polled == loop.inflight[i]
          IN  \E response \in SubscribeResponses(polled.request) :
                 LET ended == xdrEnd(response)
                     taken == [LoopState EXCEPT
                                 !.loop.inflight =
                                     SubSeq(@, 1, i - 1) \o SubSeq(@, i + 1, Len(@)),
                                 !.loop.before = loop.cursor.timetoken,
                                 !.loop.event = "stalled",
                                 !.loop.last = [seq |-> polled.seq,
                                                timetoken |-> polled.request.url[6],
                                                followUp |-> 0]]
                     st == RunCallbacks(taken, ended.callbacks, polled, rnd)
                 IN  /\ loop' = st.loop
                     /\ subscribeOrigin' = st.subscribeOrigin
                     /\ currentSubDomain' = st.currentSubDomain
                     /\ hist' = st.hist
    /\ UNCHANGED <<providedFQDN, standardOrigin, coreParams, keychain, config,
                   sendBeacon, call>>

\* the caller stops the loop; a long-poll on the wire is left to complete
LoopStop ==
    /\ loop.phase = "polling"
    /\ ~loop.stopped
    /\ loop' = [loop EXCEPT !.stopped = TRUE, !.issuedAtStop = loop.issued,
                            !.event = "stop", !.before = loop.cursor.timetoken]
    /\ UNCHANGED <<providedFQDN, currentSubDomain, standardOrigin, subscribeOrigin,
                   coreParams, keychain, config, sendBeacon, call, hist>>

\* the caller resets the cursor (the channel list changed): the long-poll on the
\* wire is abandoned and the next one carries timetoken 0
LoopReset ==
    /\ loop.phase = "polling"
    /\ ~loop.stopped
    /\ loop.inflight # <<>>
    /\ loop.cursor.timetoken > 0
    /\ Polling
    /\ LET st == Issue([LoopState EXCEPT
                          !.loop.inflight = <<>>,
                          !.loop.before = loop.cursor.timetoken,
                          !.loop.cursor = [timetoken |-> 0, region |-> NULL],
                          !.loop.event = "reset"])
       IN  /\ loop' = st.loop
           /\ subscribeOrigin' = st.subscribeOrigin
           /\ currentSubDomain' = st.currentSubDomain
           /\ hist' = st.hist
    /\ UNCHANGED <<providedFQDN, standardOrigin, coreParams, keychain, config,
                   sendBeacon, call>>

(***************************************************************************)
(* The operations under every combination of credentials.                  *)
(***************************************************************************)
Keys(name) == {NULL, name}

Keychains ==
    [subscribeKey : Keys("sub-c-1"), publishKey : Keys("pub-c-1"),
     secretKey : Keys("sec-c-1"), authKey : Keys("auth-1"), uuid : Keys("uuid-1"),
     instanceId : {"inst-1"}]

FullKeychain ==
    [subscribeKey |-> "sub-c-1", publishKey |-> "pub-c-1", secretKey |-> "sec-c-1",
     authKey |-> "auth-1", uuid |-> "uuid-1", instanceId |-> "inst-1"]

\* Config values: timeouts in seconds, 0 standing for an unset one
Configs ==
    [instanceIdEnabled : BOOLEAN,
     transactionalRequestTimeout : {15},
     subscribeRequestTimeout : {0, 310}]

DefaultConfig ==
    [instanceIdEnabled |-> FALSE,
     transactionalRequestTimeout |-> 15,
     subscribeRequestTimeout |-> 310]

\* parameter objects a caller passes: none, an empty one, one with a field
FewParams == {NotGiven, Given([k \in {"count"} |-> "p"])}

Init ==
    \E kc \in Keychains, beacon \in BOOLEAN, draw \in {0, 18} :
        Constructed(FALSE, DefaultOrigin, draw, kc, DefaultConfig, beacon)

Next ==
    \/ ConstructStandardOrigin
    \/ ConstructSubscribeOrigin
    \/ FetchHistory(FewParams)
    \/ PerformChannelGroupOperation(FewParams)
    \/ ProvisionDeviceForPush(FewParams)
    \/ PerformGrant(FewParams)
    \/ PerformHeartbeat(FewParams)
    \/ PerformAudit(FewParams)
    \/ PerformLeave(FewParams)
    \/ FetchTime
    \/ FetchWhereNow
    \/ FetchHereNow(FewParams)
    \/ SetState(FewParams)
    \/ FetchState(FewParams)
    \/ PerformPublish(FewParams)
    \/ PerformSubscribe(FewParams)
    \/ Respond(Responses)

Spec == Init /\ [][Next]_vars

(***************************************************************************)
(* The rotator under every origin and every random draw.                   *)
(***************************************************************************)
InitRotator ==
    \/ \E draw \in 0..(maxSubDomain - 1) :
          Constructed(FALSE, DefaultOrigin, draw, FullKeychain, DefaultConfig, TRUE)
    \/ \E base \in {<<TRUE, EuropeOrigin>>, <<FALSE, CustomOrigin>>,
                    <<TRUE, CustomPubsubOrigin>>},
          draw \in {0, maxSubDomain - 1}, beacon \in BOOLEAN :
          Constructed(base[1], base[2], draw, FullKeychain, DefaultConfig, beacon)

NextRotator ==
    \/ ConstructStandardOrigin
    \/ ConstructSubscribeOrigin
    \/ \E failover \in BOOLEAN : shiftStandardOrigin(failover)
    \/ \E failover \in BOOLEAN : shiftSubscribeOrigin(failover)
    \/ PerformLeave({NotGiven})
    \/ FetchTime
    \/ Respond({TransportError, Response(NULL, JsonText("ok"))})

SpecRotator == InitRotator /\ [][NextRotator]_vars

(***************************************************************************)
(* The parameter composer under every call and core parameter object.      *)
(***************************************************************************)
ParamKeys == {"count", "instanceid", "toString"}

\* the objects whose own keys are among ParamKeys, every value being value
ObjectsOf(value) == UNION {[ks -> {value}] : ks \in SUBSET ParamKeys}

CallParams == {NotGiven} \cup {Given(obj) : obj \in ObjectsOf("p")}

\* a direct call of prepareParams(data)
PrepareParams(Ps) ==
    /\ Ready
    /\ ~call.pending
    /\ hist.calls < MaxCalls
    /\ \E P \in Ps :
          LET data == prepareParams(coreParams, config, keychain, P)
          IN  call' = [NoCall EXCEPT !.op = "prepareParams", !.given = P,
                                     !.data = Filled(P, data), !.core = coreParams,
                                     !.returned = Given(data)]
    /\ hist' = [hist EXCEPT !.calls = @ + 1]
    /\ UNCHANGED <<providedFQDN, currentSubDomain, standardOrigin, subscribeOrigin,
                   coreParams, keychain, config, sendBeacon, loop>>

InitParams ==
    \E cfg \in Configs :
        /\ cfg.subscribeRequestTimeout = 310
        /\ Constructed(FALSE, DefaultOrigin, 0, FullKeychain, cfg, FALSE)

NextParams ==
    \/ ConstructStandardOrigin
    \/ ConstructSubscribeOrigin
    \/ \E params \in ObjectsOf("c") : setCoreParams(params)
    \/ \E key \in ParamKeys : addCoreParam(key, "c")
    \/ PrepareParams(CallParams)

SpecParams == InitParams /\ [][NextParams]_vars

(***************************************************************************)
(* The requests the operations build: identity fields and timeouts, under  *)
(* every presence of uuid and auth key and every subscribe timeout.        *)
(***************************************************************************)
\* parameter objects that carry none, one or both of the identity fields
IdentityParams ==
    {NotGiven} \cup {Given([k \in ks |-> "p"]) : ks \in SUBSET {"uuid", "auth"}}

InitRequests ==
    \E authKey \in Keys("auth-1"), uuid \in Keys("uuid-1"), cfg \in Configs,
       beacon \in BOOLEAN :
        /\ ~cfg.instanceIdEnabled
        /\ Constructed(FALSE, DefaultOrigin, 0,
                       [FullKeychain EXCEPT !.authKey = authKey, !.uuid = uuid],
                       cfg, beacon)

NextRequests ==
    \/ ConstructStandardOrigin
    \/ ConstructSubscribeOrigin
    \/ addCoreParam("auth", "c")
    \/ FetchHistory(IdentityParams)
    \/ PerformChannelGroupOperation(IdentityParams)
    \/ ProvisionDeviceForPush(IdentityParams)
    \/ PerformGrant(IdentityParams)
    \/ PerformHeartbeat(IdentityParams)
    \/ PerformAudit(IdentityParams)
    \/ PerformLeave(IdentityParams)
    \/ FetchTime
    \/ FetchWhereNow
    \/ FetchHereNow(IdentityParams)
    \/ SetState(IdentityParams)
    \/ FetchState(IdentityParams)
    \/ PerformPublish(IdentityParams)
    \/ PerformSubscribe(IdentityParams)
    \/ Respond({Response(NULL, JsonText("ok"))})

SpecRequests == InitRequests /\ [][NextRequests]_vars

(***************************************************************************)
(* The subscribe loop on pool and custom origins, with and without the     *)
(* subscribe key.                                                          *)
(***************************************************************************)
InitSubscribe ==
    \E base \in {<<FALSE, DefaultOrigin>>, <<TRUE, CustomOrigin>>},
       draw \in {0, maxSubDomain - 1},
       subscribeKey \in Keys("sub-c-1") :
        Constructed(base[1], base[2], draw,
                    [FullKeychain EXCEPT !.subscribeKey = subscribeKey],
                    DefaultConfig, FALSE)

NextSubscribe ==
    \/ ConstructStandardOrigin
    \/ ConstructSubscribeOrigin
    \/ LoopStart
    \/ LoopComplete
    \/ LoopStop
    \/ LoopReset

SpecSubscribe == InitSubscribe /\ [][NextSubscribe]_vars

(***************************************************************************)
(* Claims.                                                                 *)
(***************************************************************************)
\* the observed call has run to its end: it was made and no request of it
\* awaits a response
Settled == call.op # "none" /\ ~call.pending

PublicOperations ==
    {"fetchHistory", "performChannelGroupOperation", "provisionDeviceForPush",
     "performGrant", "performAudit", "performHeartbeat", "performLeave", "fetchTime",
     "fetchWhereNow", "fetchHereNow", "setState", "fetchState", "performPublish",
     "performSubscribe"}

\* C1: every call of a public operation runs the caller's completion callback
\* exactly once, whatever the credentials and the transport outcome: never
\* twice, and once when the call has run to its end.
C1_CallbackExactlyOnce ==
    call.op \in PublicOperations =>
        /\ Len(call.callbacks) <= 1
        /\ Settled => Len(call.callbacks) = 1

\* the checklist of the operations that validate through the callback
NeedsPublishKey == {"performPublish", "provisionDeviceForPush"}
NeedsSubscribeKey == PublicOperations \ {"fetchTime"}

FirstMissing(op) ==
    IF op \in NeedsSubscribeKey /\ keychain.subscribeKey = NULL
    THEN "Missing Subscribe Key"
    ELSE IF op \in NeedsPublishKey /\ keychain.publishKey = NULL
    THEN "Missing Publish Key"
    ELSE NULL

\* C2: when a credential an operation requires is absent, the call ends in a
\* validation error naming the first missing credential, delivered through the
\* completion callback, and the transport is not invoked.
C2_MissingCredentialRejected ==
    (call.op \in PublicOperations /\ FirstMissing(call.op) # NULL) =>
        /\ call.threw = NULL
        /\ call.callbacks =
              <<[err |-> validationError(FirstMissing(call.op)), result |-> None]>>
        /\ call.requests = <<>>
        /\ call.beacons = <<>>

SignedOperations == {"performGrant", "performAudit"}

FirstMissingOfThree ==
    IF keychain.subscribeKey = NULL THEN "Missing Subscribe Key"
    ELSE IF keychain.publishKey = NULL THEN "Missing Publish Key"
    ELSE IF keychain.secretKey = NULL THEN "Missing Secret Key"
    ELSE NULL

\* C3: performGrant and performAudit called while the secret key (or the
\* subscribe or the publish key) is absent report a validation error naming the
\* missing key to the caller and do not invoke the transport.
C3_SignedOperationFailsFast ==
    (call.op \in SignedOperations /\ FirstMissingOfThree # NULL) =>
        /\ call.threw = NULL
        /\ \E i \in 1..Len(call.callbacks) :
              call.callbacks[i].err = validationError(FirstMissingOfThree)
        /\ call.requests = <<>>

\* the keys of an object argument (none when it was not given)
Own(data) == IF data.present THEN DOMAIN data.obj ELSE {}

SentOrigins ==
    {call.requests[i].url[1] : i \in 1..Len(call.requests)}
        \cup {call.beacons[i].url[1] : i \in 1..Len(call.beacons)}

\* C9: with a literal custom origin, rotation and failover return the provided
\* origin and leave the subdomain counter alone: after any shifts and requests
\* both cached origins, and the origin performLeave sends to, are the provided
\* origin, and the counter is still the constructor's draw.
C9_CustomOriginIsFixed ==
    (~IsPoolTemplate(providedFQDN) /\ Ready) =>
        /\ standardOrigin = providedFQDN
        /\ subscribeOrigin = providedFQDN
        /\ currentSubDomain = hist.draw
        /\ \A origin \in SentOrigins : origin = providedFQDN

\* a custom origin that holds 'pubsub' (but not 'pubsub.'), after performLeave
C9_Witness ==
    /\ ~IsPoolTemplate(providedFQDN)
    /\ \E i \in 1..Len(providedFQDN) : providedFQDN[i] = "pubsub"
    /\ Ready
    /\ call.op = "performLeave"
    /\ call.beacons # <<>>

DigitTokens == {"0", "1", "2", "3", "4", "5", "6", "7", "8", "9"}
DigitValue(t) == CHOOSE d \in 0..9 : Digit(d) = t

\* the number written in decimal from position i of origin on
RECURSIVE NumberAt(_, _, _)
NumberAt(origin, i, acc) ==
    IF i > Len(origin) \/ origin[i] \notin DigitTokens THEN acc
    ELSE NumberAt(origin, i + 1, 10 * acc + DigitValue(origin[i]))

\* origin is template with its first 'pubsub' replaced by 'ps' and the decimal
\* digits of n
CarriesSubdomain(origin, template, n) ==
    \E i \in 1..Len(template) :
        /\ template[i] = "pubsub"
        /\ \A j \in 1..(i - 1) : template[j] # "pubsub" /\ origin[j] = template[j]
        /\ origin[i] = "ps"
        /\ origin[i + 1] \in DigitTokens
        /\ origin[i + 1] # "0"
        /\ NumberAt(origin, i + 1, 0) = n
        /\ \E m \in 1..2 :
              /\ \A j \in 1..m : origin[i + j] \in DigitTokens
              /\ SubSeq(origin, i + m + 1, Len(origin)) = SubSeq(template, i + 1, Len(template))

\* C10: on a pool origin, k >= 1 non-failover advances from the counter value c
\* leave the counter at (c + k - 1) mod (poolSize - 1) + 1, which is in
\* 1..poolSize-1, and the origin the last advance returned carries that counter
\* as its subdomain number.
C10_CounterAfterAdvances ==
    (IsPoolTemplate(providedFQDN) /\ hist.advances >= 1) =>
        /\ currentSubDomain =
              ((hist.draw + hist.advances - 1) % (maxSubDomain - 1)) + 1
        /\ currentSubDomain \in 1..(maxSubDomain - 1)
        /\ CarriesSubdomain(hist.returned, providedFQDN, currentSubDomain)

\* the counter wrapped from 19 to 1 on an advance made after construction
C10_Witness ==
    /\ IsPoolTemplate(providedFQDN)
    /\ hist.draw = maxSubDomain - 3
    /\ hist.advances = 3
    /\ currentSubDomain = 1

(***************************************************************************)
(* Subscribe loop.                                                         *)
(***************************************************************************)
\* the long-poll the last step of the loop issued, if it is on the wire
FollowUp == {i \in 1..Len(loop.inflight) : loop.inflight[i].seq = loop.last.followUp}

\* origin is what failover selection yields: the provided origin when it is a
\* literal one, else the template with a random identifier (and no pool
\* number) as its subdomain
FailoverSelected(origin) ==
    IF IsPoolTemplate(providedFQDN)
    THEN \E i \in 1..Len(providedFQDN), rnd \in RandomIds :
            /\ providedFQDN[i] = "pubsub"
            /\ \A j \in 1..(i - 1) : providedFQDN[j] # "pubsub"
            /\ origin = SubSeq(providedFQDN, 1, i - 1) \o <<"ps", rnd>>
                            \o SubSeq(providedFQDN, i + 1, Len(providedFQDN))
    ELSE origin = providedFQDN

\* C4: when a long-poll ends in a transport failure, the long-poll issued next
\* carries the timetoken the failed one carried (the cursor is left as it was,
\* not reset to 0) and goes to a failover-selected subscribe origin.
C4_FailureKeepsCursorAndFailsOver ==
    (loop.event = "failure") =>
        /\ loop.cursor.timetoken = loop.before
        /\ FollowUp # {}
        /\ \A i \in FollowUp :
              /\ loop.inflight[i].request.url[6] = loop.last.timetoken
              /\ loop.inflight[i].request.url[1] = subscribeOrigin
              /\ FailoverSelected(loop.inflight[i].request.url[1])

\* a transport failure of a long-poll that carried a timetoken above 0, on the
\* pool
C4_Witness ==
    /\ loop.event = "failure"
    /\ loop.last.timetoken > 0
    /\ IsPoolTemplate(providedFQDN)
    /\ FollowUp # {}

\* C5: at most one long-poll is on the wire; it is the last one issued, so all
\* earlier ones have completed; and the events are delivered in the order of
\* the requests that returned them, each before the following request's.
C5_LongPollsAreSequential ==
    /\ Len(loop.inflight) <= 1
    /\ \A i \in 1..Len(loop.inflight) : loop.inflight[i].seq = loop.issued
    /\ \A i \in 1..Len(loop.delivered) :
          /\ loop.delivered[i].seq <= loop.issued
          /\ \A j \in 1..Len(loop.inflight) : loop.delivered[i].seq < loop.inflight[j].seq
          /\ \A j \in (i + 1)..Len(loop.delivered) :
                loop.delivered[i].seq <= loop.delivered[j].seq

\* two batches of two requests delivered, and the next long-poll on the wire
C5_Witness ==
    /\ Len(loop.inflight) = 1
    /\ \E i, j \in 1..Len(loop.delivered) : loop.delivered[i].seq < loop.delivered[j].seq

\* C6: once a stop is issued no long-poll is issued any more: the long-poll that
\* was on the wire completes, with any outcome, without a follow-up.
C6_NoRequestAfterStop ==
    loop.stopped =>
        /\ loop.issued = loop.issuedAtStop
        /\ \A i \in 1..Len(loop.inflight) : loop.inflight[i].seq <= loop.issuedAtStop
        /\ loop.event = "discarded" => loop.last.followUp = 0 /\ loop.inflight = <<>>

\* the long-poll that was on the wire at the stop completed after it
C6_Witness ==
    /\ loop.stopped
    /\ loop.event = "discarded"
    /\ loop.last.seq = loop.issuedAtStop
    /\ loop.cursor.timetoken > 0

\* every long-poll carries the cursor's timetoken at the time it is issued,
\* which is 0 for the first
CarriesCursor ==
    \A i \in 1..Len(loop.inflight) :
        /\ loop.inflight[i].request.url[6] = loop.inflight[i].cursorAtIssue
        /\ loop.inflight[i].request.url[6] = loop.cursor.timetoken
        /\ loop.inflight[i].seq = 1 => loop.inflight[i].request.url[6] = 0

Answered == call.requests # <<>> /\ ~call.pending

\* C11: a response without transport error and without HTTP error whose body is
\* not JSON ends in exactly one callback that carries a malformed-response
\* error and no result, and nothing is thrown out of the response handler.
C11_ParseFailureReported ==
    (/\ Answered
     /\ call.response.err = NULL
     /\ call.response.error = NULL
     /\ ~call.response.text.parseable) =>
        /\ call.threw = NULL
        /\ Len(call.callbacks) = 1
        /\ call.callbacks[1].err.type \notin {"none", "transport"}
        /\ call.callbacks[1].result = None

\* a well-formed response that encodes an application-level error: on the
\* response object, or in the body it carries
IsApplicationErrorResponse(response) ==
    /\ response.err = NULL
    /\ \/ response.error # NULL
       \/ response.text.parseable /\ response.text.body = "error"

\* C12: a well-formed response that encodes an application-level error ends in
\* exactly one callback whose first argument is an error (the server's, when it
\* came on the response object) and whose result is null, however the error
\* was encoded.
C12_ApplicationErrorReported ==
    (Answered /\ IsApplicationErrorResponse(call.response)) =>
        /\ Len(call.callbacks) = 1
        /\ call.callbacks[1].err # None
        /\ call.callbacks[1].result = None
        /\ call.response.error # NULL =>
              call.callbacks[1].err = [type |-> "response", error |-> call.response.error]

\* C13: with a beacon sender and the subscribe key, performLeave hands the URL
\* and the parameters to the beacon, hands nothing to the transport, and has
\* run the callback once with a successful result when it returns, whatever
\* the beacon returned.
C13_BeaconLeaveCompletesAtOnce ==
    (call.op = "performLeave" /\ sendBeacon /\ keychain.subscribeKey # NULL) =>
        /\ Len(call.beacons) = 1
        /\ call.beacons[1].url[8] = "leave"
        /\ call.requests = <<>>
        /\ Len(call.callbacks) = 1
        /\ call.callbacks[1].err = None
        /\ call.callbacks[1].result.status = 200

\* C15: one call hands at most one request to the transport, whatever the
\* answer: the response handler issues none, and the standard origin a
\* transactional request went to is still the cached one after its failure.
C15_NoRetry ==
    /\ Len(call.requests) <= 1
    /\ call.sent = Len(call.requests)
    /\ Answered => ~call.pending /\ call.sent = 1
    /\ (Answered /\ call.op \notin {"performLeave", "performSubscribe"}) =>
          call.requests[1].url[1] = standardOrigin

\* a transactional request failed in the transport
C15_Witness ==
    /\ Answered
    /\ call.op = "fetchHistory"
    /\ call.response = TransportError
    /\ Len(call.callbacks) = 1

(***************************************************************************)
(* Rotation of the two cached origins.                                     *)
(***************************************************************************)
\* the counter k non-failover steps after c
Steps(c, k) == IF k = 0 THEN c ELSE ((c + k - 1) % (maxSubDomain - 1)) + 1

\* The counter the n-th non-failover shift of a channel's origin yields when
\* nothing but the constructor's two shifts (standard, then subscribe) is
\* interleaved with the shifts of that channel; the constructor's own shift is
\* the first of each channel.
Uninterleaved(channel, draw, n) ==
    IF channel = "standard" /\ n = 1 THEN Steps(draw, 1) ELSE Steps(draw, n + 1)

\* C14: on the pool, the subdomain the n-th shiftSubscribeOrigin(false) yields
\* depends on the initial counter and on n alone, so it is the one the run
\* without interleaved shiftStandardOrigin and performLeave calls yields; and
\* the same for shiftStandardOrigin(false).
C14_ChannelsRotateIndependently ==
    IsPoolTemplate(providedFQDN) =>
        \A channel \in {"standard", "subscribe"} :
            hist.shifts[channel].n >= 1 =>
                hist.shifts[channel].sub =
                    Uninterleaved(channel, hist.draw, hist.shifts[channel].n)

(***************************************************************************)
(* Identity fields, signatures and timeouts of the requests.               *)
(***************************************************************************)
\* what the call handed to the transport or to the beacon
Outgoing == call.requests \o call.beacons

\* the operations that inject auth, and those that inject uuid
InjectsAuth ==
    {"fetchHistory", "performChannelGroupOperation", "provisionDeviceForPush",
     "performLeave", "fetchTime", "fetchWhereNow", "fetchHereNow", "setState",
     "fetchState", "performPublish", "performSubscribe"}
InjectsUUID ==
    {"provisionDeviceForPush", "performLeave", "fetchTime", "fetchHereNow",
     "performPublish", "performSubscribe"}

\* the call's parameters composed with the core parameters the call found
Composed == prepareParams(call.core, config, keychain, call.given)

\* key of the outgoing parameters is as conditional injection of value leaves it
InjectedIfAbsent(sent, key, value) ==
    IF key \in DOMAIN Composed
    THEN key \in DOMAIN sent /\ sent[key] = Composed[key]
    ELSE IF value # NULL
    THEN key \in DOMAIN sent /\ sent[key] = value
    ELSE key \notin DOMAIN sent

\* C16: uuid and auth of the outgoing parameters come from the Keychain only
\* when it holds a value and the composed parameters do not carry the key: a
\* value the call or the core parameters gave is kept, and no key is added for
\* an absent Keychain value.
C16_IdentityInjectedOnlyIfAbsent ==
    \A i \in 1..Len(Outgoing) :
        /\ call.op \in InjectsAuth =>
              InjectedIfAbsent(Outgoing[i].data, "auth", keychain.authKey)
        /\ call.op \in InjectsUUID =>
              InjectedIfAbsent(Outgoing[i].data, "uuid", keychain.uuid)

\* C17: with the three keys present performGrant and performAudit hand one
\* request to the transport, whose parameters hold a signature, and hold auth
\* exactly when the call was given an auth key.
C17_SignedRequestSent ==
    (/\ call.op \in {"performGrant", "performAudit"}
     /\ keychain.subscribeKey # NULL
     /\ keychain.publishKey # NULL
     /\ keychain.secretKey # NULL) =>
        /\ call.threw = NULL
        /\ Len(call.requests) = 1
        /\ "signature" \in DOMAIN call.requests[1].data
        /\ ("auth" \in DOMAIN call.requests[1].data) <=> (call.authKey # NULL)

\* C18: every request carries a timeout; that of performSubscribe is the
\* subscribe timeout of Config (never the transactional one, also when the
\* subscribe timeout is zero or unset) and that of any other operation is the
\* transactional timeout.
C18_TimeoutPerKindOfRequest ==
    \A i \in 1..Len(call.requests) :
        /\ call.requests[i].timeout # 0
        /\ IF call.op = "performSubscribe"
           THEN IF config.subscribeRequestTimeout # 0
                THEN call.requests[i].timeout = config.subscribeRequestTimeout
                ELSE call.requests[i].timeout # config.transactionalRequestTimeout
           ELSE call.requests[i].timeout = config.transactionalRequestTimeout

(***************************************************************************)
(* What a call leaves alone.                                               *)
(***************************************************************************)
\* the step is a call of a public operation
IsCall == hist'.calls # hist.calls

\* the call ended in a validation error
EndedInValidationError(c) ==
    /\ Len(c.callbacks) = 1
    /\ c.callbacks[1].err.type = "validationError"

\* C19: a call that ends in a validation error leaves the subdomain counter,
\* both cached origins, the core parameters and the caller's parameter object
\* as they were.
C19_ValidationErrorChangesNothing ==
    [][(IsCall /\ EndedInValidationError(call')) =>
          /\ currentSubDomain' = currentSubDomain
          /\ standardOrigin' = standardOrigin
          /\ subscribeOrigin' = subscribeOrigin
          /\ coreParams' = coreParams
          /\ call'.data = call'.given
          /\ call'.requests = <<>>
          /\ call'.beacons = <<>>]_vars

\* performLeave was rejected for the missing subscribe key, with a parameter
\* object given
C19_Witness ==
    /\ call.op = "performLeave"
    /\ EndedInValidationError(call)
    /\ call.given.present
    /\ IsPoolTemplate(providedFQDN)

\* the step is a shift of the standard origin, of the subscribe origin, a
\* failover shift
IsStandardShift == ConstructStandardOrigin \/ \E failover \in BOOLEAN : shiftStandardOrigin(failover)
IsSubscribeShift == ConstructSubscribeOrigin \/ \E failover \in BOOLEAN : shiftSubscribeOrigin(failover)
IsFailoverShift == shiftStandardOrigin(TRUE) \/ shiftSubscribeOrigin(TRUE)

\* the call passed the validation of performLeave
LeaveValidated(c) == c.op = "performLeave" /\ c.requests \o c.beacons # <<>>

\* C20: a cached origin changes only in a shift of its own, which leaves the
\* other one alone; a call of a request operation changes neither; of the
\* request operations only a validated performLeave moves the counter, by one
\* non-failover step, and sends to the origin of that step without storing it;
\* a failover shift leaves the counter alone.
C20_RotatorFrame ==
    [][/\ standardOrigin' # standardOrigin =>
             IsStandardShift /\ subscribeOrigin' = subscribeOrigin
       /\ subscribeOrigin' # subscribeOrigin =>
             IsSubscribeShift /\ standardOrigin' = standardOrigin
       /\ IsCall =>
             /\ standardOrigin' = standardOrigin
             /\ subscribeOrigin' = subscribeOrigin
             /\ IF LeaveValidated(call') /\ IsPoolTemplate(providedFQDN)
                THEN /\ currentSubDomain' = Steps(currentSubDomain, 1)
                     /\ \A i \in 1..Len(call'.requests \o call'.beacons) :
                           CarriesSubdomain((call'.requests \o call'.beacons)[i].url[1],
                                            providedFQDN, currentSubDomain')
                ELSE currentSubDomain' = currentSubDomain
       /\ IsFailoverShift => currentSubDomain' = currentSubDomain]_vars

\* a validated performLeave on the pool after a failover shift of the standard
\* origin: it went to an origin that is neither cached one
C20_Witness ==
    /\ LeaveValidated(call)
    /\ IsPoolTemplate(providedFQDN)
    /\ \E rnd \in RandomIds : standardOrigin = ReplaceFirstPubsub(providedFQDN, <<"ps", rnd>>)
    /\ \A i \in 1..Len(Outgoing) :
          Outgoing[i].url[1] \notin {standardOrigin, subscribeOrigin}
====
